---- MODULE Spec2Model ----
(***************************************************************************)
(* Structured Data Extractor (src/app.py).                                 *)
(*                                                                         *)
(* Python strings are modelled as sequences of one-character strings, so   *)
(* that concatenation, trimming, splitting and formatting are computed     *)
(* character by character.  A Python value (None, str, int, bool, list,    *)
(* dict) is a record [kind, s, n, items]; a dict keeps its insertion order *)
(* as a sequence of [k, v] pairs with pairwise distinct keys.              *)
(***************************************************************************)
EXTENDS Integers, Sequences, FiniteSets, TLC

VARIABLES
    pc,            \* position of the script / of the function under analysis
    prefix,        \* flatten_item: parameter prefix
    arg,           \* the value passed to the function under analysis
    rows,          \* flatten_item: the accumulator list passed in (mutated)
    ret,           \* the function's return value
    urls_input,    \* the text of the URL text area
    urls,          \* the trimmed non-blank lines of urls_input
    i,             \* loop counter of the run loop (1-based)
    all_rows,      \* accumulator of flat rows
    per_url_rows,  \* accumulator of per-URL summaries
    progress,      \* last value given to the progress bar, <<i, len(urls)>>
    error_shown,   \* st.error("No URLs provided") was shown
    download,      \* the sheets offered for download, <<>> while there are none
    final_url,     \* extract_structured_data: the URL fetch_html resolved
    extracted,     \* extract_structured_data: the raw output of extruct.extract
    result,        \* the value extract_structured_data returned
    exc,           \* the text of the exception being handled
    served         \* history: for each URL so far, whether extract_structured_data
                   \* returned and what it returned or raised

fnvars == <<prefix, arg, rows, ret>>
runvars == <<urls_input, urls, i, all_rows, per_url_rows, progress, error_shown,
             download, final_url, extracted, result, exc, served>>
vars == <<pc, fnvars, runvars>>

----------------------------------------------------------------------------
(* Bounds of the model *)

\* total number of nodes (containers and leaves) of a flattened value
MaxNodes == 4

\* length of a sequence found under @type or type
MaxTypes == 2

\* number of items of one syntax in a raw extraction output
MaxItems == 2

\* number of characters of the URL text area
MaxInputLen == 5

\* st.dataframe(df_flat.head(50))
PreviewRows == 50

----------------------------------------------------------------------------
(* Python values *)

None == [kind |-> "null", s |-> <<>>, n |-> 0, items |-> <<>>]
PyStr(s) == [kind |-> "str", s |-> s, n |-> 0, items |-> <<>>]
PyInt(n) == [kind |-> "int", s |-> <<>>, n |-> n, items |-> <<>>]
PyBool(b) == [kind |-> "bool", s |-> <<>>, n |-> IF b THEN 1 ELSE 0, items |-> <<>>]
PyList(xs) == [kind |-> "list", s |-> <<>>, n |-> 0, items |-> xs]
PyDict(kvs) == [kind |-> "dict", s |-> <<>>, n |-> 0, items |-> kvs]

\* isinstance(v, dict), isinstance(v, list)
IsDict(v) == v.kind = "dict"
IsList(v) == v.kind = "list"

\* Python truth value: None, "", 0, False, [] and {} are falsy
Truthy(v) ==
    CASE v.kind = "null" -> FALSE
      [] v.kind = "str" -> v.s # <<>>
      [] v.kind = "int" -> v.n # 0
      [] v.kind = "bool" -> v.n # 0
      [] v.kind = "list" -> v.items # <<>>
      [] v.kind = "dict" -> v.items # <<>>

Digit(d) == <<"0", "1", "2", "3", "4", "5", "6", "7", "8", "9">>[d + 1]

RECURSIVE Digits(_)
Digits(n) == IF n < 10 THEN <<Digit(n)>> ELSE Digits(n \div 10) \o <<Digit(n % 10)>>

\* str(i) of an int
IntStr(n) == IF n < 0 THEN <<"-">> \o Digits(-n) ELSE Digits(n)

\* str(x) of a scalar: a str is itself, an int its decimal form, a bool True/False
str(v) ==
    CASE v.kind = "str" -> v.s
      [] v.kind = "int" -> IntStr(v.n)
      [] v.kind = "bool" -> IF v.n = 1 THEN <<"T", "r", "u", "e">>
                                       ELSE <<"F", "a", "l", "s", "e">>
      [] v.kind = "null" -> <<"N", "o", "n", "e">>

----------------------------------------------------------------------------
(* flatten_item *)

RECURSIVE flatten_item(_, _, _), flatten_dict(_, _, _, _), flatten_list(_, _, _, _)

\* flatten_dict with the separator also written after an empty parent path
flatten_dict_nocond(pfx, items, j, acc) ==
    IF j > Len(items) THEN acc
    ELSE flatten_dict(pfx, items, j + 1,
            flatten_item(pfx \o <<".">> \o items[j].k, items[j].v, acc))

\* for k, v in value.items(): flatten_item(f"{prefix}.{k}" if prefix else k, v, rows)
flatten_dict(pfx, items, j, acc) ==
    IF j > Len(items) THEN acc
    ELSE flatten_dict(pfx, items, j + 1,
            flatten_item(IF pfx # <<>> THEN pfx \o <<".">> \o items[j].k ELSE items[j].k,
                         items[j].v, acc))

\* for i, v in enumerate(value): flatten_item(f"{prefix}[{i}]", v, rows)
flatten_list(pfx, items, j, acc) ==
    IF j > Len(items) THEN acc
    ELSE flatten_list(pfx, items, j + 1,
            flatten_item(pfx \o <<"[">> \o IntStr(j - 1) \o <<"]">>, items[j], acc))

\* flatten_item with a None leaf stringified like every other scalar
flatten_item_nonone(pfx, value, acc) ==
    IF IsDict(value) THEN flatten_dict(pfx, value.items, 1, acc)
    ELSE IF IsList(value) THEN flatten_list(pfx, value.items, 1, acc)
    ELSE Append(acc, [property |-> pfx, value |-> str(value)])

flatten_item(pfx, value, acc) ==
    IF IsDict(value) THEN flatten_dict(pfx, value.items, 1, acc)
    ELSE IF IsList(value) THEN flatten_list(pfx, value.items, 1, acc)
    ELSE Append(acc, [property |-> pfx,
                      value |-> IF value = None THEN <<>> ELSE str(value)])

----------------------------------------------------------------------------
(* dict access and string helpers *)

HasKey(d, key) == \E j \in 1..Len(d.items) : d.items[j].k = key

\* d.get(key): the value stored under key, None when the key is missing
Get(d, key) ==
    IF HasKey(d, key)
    THEN d.items[CHOOSE j \in 1..Len(d.items) : d.items[j].k = key].v
    ELSE None

\* a or b
Or(a, b) == IF Truthy(a) THEN a ELSE b

\* sep.join(str(x) for x in xs)
RECURSIVE JoinStr(_, _)
JoinStr(sep, xs) ==
    IF xs = <<>> THEN <<>>
    ELSE IF Len(xs) = 1 THEN str(xs[1])
    ELSE str(xs[1]) \o sep \o JoinStr(sep, Tail(xs))

AtType == <<"@", "t", "y", "p", "e">>
Type == <<"t", "y", "p", "e">>
JsonLd == <<"j", "s", "o", "n", "-", "l", "d">>
Microdata == <<"m", "i", "c", "r", "o", "d", "a", "t", "a">>
Rdfa == <<"r", "d", "f", "a">>

----------------------------------------------------------------------------
(* guess_item_type *)

\* guess_item_type reading only the @type field
guess_item_type_nofallback(item) ==
    IF IsDict(item)
    THEN LET t == Get(item, AtType)
         IN  IF IsList(t) THEN JoinStr(<<",">>, t.items)
             ELSE IF Truthy(t) THEN str(t)
             ELSE <<>>
    ELSE <<>>

guess_item_type(item) ==
    IF IsDict(item)
    THEN LET t == Or(Get(item, AtType), Get(item, Type))
         IN  IF IsList(t) THEN JoinStr(<<",">>, t.items)
             ELSE IF Truthy(t) THEN str(t)
             ELSE <<>>
    ELSE <<>>

----------------------------------------------------------------------------
(* normalize_items *)

\* the list the loop of normalize_items goes through
Syntaxes == <<JsonLd, Microdata, Rdfa>>

\* normalize_value wrapping whatever extracted.get(k) returns
normalize_value_noor(raw, k) ==
    LET v == Get(raw, k)
    IN  IF ~IsList(v) THEN PyList(<<v>>) ELSE v

\* v = extracted.get(k) or []; if not isinstance(v, list): v = [v]
normalize_value(raw, k) ==
    LET v == Or(Get(raw, k), PyList(<<>>))
    IN  IF ~IsList(v) THEN PyList(<<v>>) ELSE v

\* for k in ["json-ld", "microdata", "rdfa"]: ...; out[k] = v
normalize_items(raw) ==
    PyDict(<<[k |-> Syntaxes[1], v |-> normalize_value(raw, Syntaxes[1])],
             [k |-> Syntaxes[2], v |-> normalize_value(raw, Syntaxes[2])],
             [k |-> Syntaxes[3], v |-> normalize_value(raw, Syntaxes[3])]>>)

\* the script is not running: the state of the variables of the run loop
\* while a single function is analysed
RunIdle ==
    /\ urls_input = <<>> /\ urls = <<>> /\ i = 0
    /\ all_rows = <<>> /\ per_url_rows = <<>> /\ progress = <<0, 1>>
    /\ error_shown = FALSE /\ download = <<>>
    /\ final_url = <<>> /\ extracted = None /\ result = None /\ exc = <<>>
    /\ served = <<>>

----------------------------------------------------------------------------
(* Inputs of flatten_item: every value of at most MaxNodes nodes *)

FlattenLeaves == {None, PyInt(10)}

FlattenKeys == {<<"a">>, <<"b">>, <<"a", ".", "b">>, <<>>}

\* sequences of n pairwise distinct keys
RECURSIVE KeySeqs(_)
KeySeqs(n) ==
    IF n = 0 THEN {<<>>}
    ELSE {Append(ks, k) : <<ks, k>> \in
            {p \in KeySeqs(n - 1) \X FlattenKeys :
                \A j \in 1..Len(p[1]) : p[1][j] # p[2]}}

RECURSIVE KeySeqsUpTo(_)
KeySeqsUpTo(n) == IF n = 0 THEN KeySeqs(0) ELSE KeySeqs(n) \cup KeySeqsUpTo(n - 1)

\* the (key, value) pairs of a dict with keys ks and values f, in order
RECURSIVE Zip(_, _)
Zip(ks, f) ==
    IF ks = <<>> THEN <<>>
    ELSE <<[k |-> Head(ks), v |-> Head(f)]>> \o Zip(Tail(ks), Tail(f))

\* the kinds of container: a list, or a dict with the key sequence ks
Shapes(n) ==
    {[list |-> TRUE, ks |-> <<>>]} \cup {[list |-> FALSE, ks |-> ks] : ks \in KeySeqsUpTo(n)}

\* the containers whose children are one of the sequences of fs
Containers(fs) ==
    {IF p[1].list THEN PyList(p[2]) ELSE PyDict(Zip(p[1].ks, p[2])) :
        p \in {q \in Shapes(MaxNodes - 1) \X fs : q[1].list \/ Len(q[1].ks) = Len(q[2])}}

\* a value of one of the sets tab[1].T .. tab[m].T followed by a sequence of
\* values, n nodes in total
RECURSIVE Forests(_, _, _)
Forests(tab, n, m) ==
    IF m = 0 THEN {}
    ELSE {<<t>> \o f : <<t, f>> \in tab[m].T \X (IF n = m THEN {<<>>} ELSE tab[n - m].F)}
         \cup Forests(tab, n, m - 1)

\* tab[m] = [T |-> the values with exactly m nodes,
\*           F |-> the sequences of values with m nodes in total], m \in 1..n-1;
\* the result adds the entry for n (the sequences of the last level are not needed)
NextLevel(tab) ==
    LET n == Len(tab) + 1
    IN  CHOOSE r \in
            {Append(tab, [T |-> Tn,
                          F |-> IF n = MaxNodes THEN {}
                                ELSE {x : x \in {<<t>> : t \in Tn} \cup Forests(tab, n, n - 1)}]) :
                Tn \in {{x : x \in IF n = 1 THEN FlattenLeaves \cup {PyList(<<>>), PyDict(<<>>)}
                                     ELSE Containers(tab[n - 1].F)}}} : TRUE

RECURSIVE TreeTable(_)
TreeTable(n) ==
    IF n = 0 THEN <<>>
    ELSE CHOOSE r \in {NextLevel(tab) : tab \in {TreeTable(n - 1)}} : TRUE

\* FlattenTable[n].T: every value of exactly n nodes, n \in 1..MaxNodes
FlattenTable == TreeTable(MaxNodes)

\* scalars passed to flatten_item as the root value
FlattenScalars ==
    {PyStr(<<"h", "i">>), PyStr(<<>>), PyInt(0), PyInt(-7), PyBool(TRUE), PyBool(FALSE)}

FlattenPrefixes == {<<>>, <<"p">>}

\* the rows already in the accumulator when flatten_item is called
OldRows == <<[property |-> <<"o">>, value |-> <<"v">>]>>

----------------------------------------------------------------------------
(* Specification of flatten_item *)

FlattenInit ==
    /\ RunIdle
    /\ pc = "flatten_call"
    /\ prefix \in FlattenPrefixes
    /\ \/ \E n \in 1..MaxNodes : arg \in FlattenTable[n].T
       \/ arg \in FlattenScalars
    /\ rows = OldRows
    /\ ret = None

FlattenCall ==
    /\ pc = "flatten_call"
    /\ rows' = flatten_item(prefix, arg, rows)
    /\ pc' = "flatten_done"
    /\ UNCHANGED <<prefix, arg, ret, runvars>>

FlattenNext == FlattenCall

SpecFlatten == FlattenInit /\ [][FlattenNext]_vars

----------------------------------------------------------------------------
(* Specification of guess_item_type *)

\* sequences over S of length at most n
RECURSIVE SeqsUpTo(_, _)
SeqsUpTo(S, n) ==
    IF n = 0 THEN {<<>>}
    ELSE SeqsUpTo(S, n - 1)
         \cup {Append(q, x) : <<q, x>> \in {p \in SeqsUpTo(S, n - 1) \X S : Len(p[1]) = n - 1}}

TypeScalars ==
    {None, PyStr(<<>>), PyStr(<<"A">>), PyStr(<<"B">>), PyInt(0), PyInt(5),
     PyBool(FALSE), PyBool(TRUE)}

\* the values found under @type or type: scalars and sequences of scalars
TypeValues ==
    TypeScalars
    \cup {PyList(q) : q \in SeqsUpTo({PyStr(<<"A">>), PyStr(<<"B">>), PyInt(5)}, MaxTypes)}

Name == <<"n", "a", "m", "e">>

\* marks a field left out of a generated dict
Absent == PyStr(<<"absent">>)

\* the dicts with (a subset of) the fields @type, type and name, in any order
TypeDicts ==
    {PyDict(SelectSeq(kvs, LAMBDA e : e.v # Absent)) :
        kvs \in {<<[k |-> ks[1], v |-> x], [k |-> ks[2], v |-> y], [k |-> Name, v |-> z]>> :
                    <<ks, x, y, z>> \in {<<AtType, Type>>, <<Type, AtType>>}
                                         \X (TypeValues \cup {Absent})
                                         \X (TypeValues \cup {Absent})
                                         \X {PyStr(<<"n">>), Absent}}}

TypeInputs ==
    TypeDicts \cup {None, PyStr(<<"A">>), PyInt(5), PyList(<<PyStr(<<"A">>)>>),
                    PyList(<<PyDict(<<[k |-> AtType, v |-> PyStr(<<"A">>)]>>)>>)}

TypeInit ==
    /\ RunIdle
    /\ pc = "type_call"
    /\ arg \in TypeInputs
    /\ prefix = <<>>
    /\ rows = <<>>
    /\ ret = None

TypeCall ==
    /\ pc = "type_call"
    /\ ret' = guess_item_type(arg)
    /\ pc' = "type_done"
    /\ UNCHANGED <<prefix, arg, rows, runvars>>

TypeNext == TypeCall

SpecType == TypeInit /\ [][TypeNext]_vars

----------------------------------------------------------------------------
(* Specification of normalize_items *)

Opengraph == <<"o", "p", "e", "n", "g", "r", "a", "p", "h">>

ItemX == PyDict(<<[k |-> AtType, v |-> PyStr(<<"X">>)]>>)
ItemY == PyDict(<<[k |-> Type, v |-> PyStr(<<"Y">>)], [k |-> Name, v |-> PyInt(10)]>>)

\* what the raw extraction output holds under a syntax name
RawValues ==
    {None, PyStr(<<>>), PyInt(0), PyBool(FALSE), PyDict(<<>>),
     PyStr(<<"s">>), PyInt(3), ItemX}
    \cup {PyList(q) : q \in SeqsUpTo({ItemX, ItemY}, MaxItems)}

\* the raw outputs: each of the three syntaxes absent or holding a raw value,
\* with or without an entry for a fourth syntax, in either key order
RawInputs ==
    {PyDict(SelectSeq(kvs, LAMBDA e : e.v # Absent)) :
        kvs \in {IF rev THEN <<[k |-> Opengraph, v |-> o], [k |-> Rdfa, v |-> z],
                               [k |-> Microdata, v |-> y], [k |-> JsonLd, v |-> x]>>
                        ELSE <<[k |-> JsonLd, v |-> x], [k |-> Microdata, v |-> y],
                               [k |-> Rdfa, v |-> z], [k |-> Opengraph, v |-> o]>> :
                    <<x, y, z, o, rev>> \in (RawValues \cup {Absent}) \X (RawValues \cup {Absent})
                                            \X (RawValues \cup {Absent})
                                            \X {Absent, PyList(<<ItemX>>)} \X BOOLEAN}}

NormalizeInit ==
    /\ RunIdle
    /\ pc = "normalize_call"
    /\ arg \in RawInputs
    /\ prefix = <<>>
    /\ rows = <<>>
    /\ ret = None

NormalizeCall ==
    /\ pc = "normalize_call"
    /\ ret' = normalize_items(arg)
    /\ pc' = "normalize_done"
    /\ UNCHANGED <<prefix, arg, rows, runvars>>

NormalizeNext == NormalizeCall

SpecNormalize == NormalizeInit /\ [][NormalizeNext]_vars

----------------------------------------------------------------------------
(* safe_json: json.dumps(obj, ensure_ascii=False, separators=(",", ":")) *)

\* a JSON string literal: quotes and backslashes are escaped
RECURSIVE JsonChars(_)
JsonChars(str_) ==
    IF str_ = <<>> THEN <<>>
    ELSE (IF Head(str_) = "\"" THEN <<"\\", "\"">>
          ELSE IF Head(str_) = "\\" THEN <<"\\", "\\">>
          ELSE <<Head(str_)>>) \o JsonChars(Tail(str_))

JsonString(str_) == <<"\"">> \o JsonChars(str_) \o <<"\"">>

RECURSIVE safe_json(_), JsonElems(_, _)

\* the members of a container from position j on, separated by ","
JsonElems(v, j) ==
    IF j > Len(v.items) THEN <<>>
    ELSE (IF j > 1 THEN <<",">> ELSE <<>>)
         \o (IF IsDict(v)
             THEN JsonString(v.items[j].k) \o <<":">> \o safe_json(v.items[j].v)
             ELSE safe_json(v.items[j]))
         \o JsonElems(v, j + 1)

safe_json(v) ==
    CASE v.kind = "null" -> <<"n", "u", "l", "l">>
      [] v.kind = "str" -> JsonString(v.s)
      [] v.kind = "int" -> IntStr(v.n)
      [] v.kind = "bool" -> IF v.n = 1 THEN <<"t", "r", "u", "e">>
                                       ELSE <<"f", "a", "l", "s", "e">>
      [] v.kind = "list" -> <<"[">> \o JsonElems(v, 1) \o <<"]">>
      [] v.kind = "dict" -> <<"{">> \o JsonElems(v, 1) \o <<"}">>

----------------------------------------------------------------------------
(* extract_structured_data, after fetching and extraction *)

\* for t in tmp: flat_rows.append({"url": final_url, "syntax": syntax, ...})
RECURSIVE TagRows(_, _, _, _, _)
TagRows(url, syntax, idx, item_type, tmp) ==
    IF tmp = <<>> THEN <<>>
    ELSE <<[url |-> url, syntax |-> syntax, item_index |-> PyInt(idx),
            item_type |-> item_type,
            property |-> Head(tmp).property, value |-> Head(tmp).value]>>
         \o TagRows(url, syntax, idx, item_type, Tail(tmp))

\* ItemRows with the position counted from one
ItemRowsFromOne(url, syntax, idx, item) ==
    TagRows(url, syntax, idx + 1, guess_item_type(item), flatten_item(<<>>, item, <<>>))

\* the body of "for idx, item in enumerate(items)" for one item
ItemRows(url, syntax, idx, item) ==
    TagRows(url, syntax, idx, guess_item_type(item), flatten_item(<<>>, item, <<>>))

\* for idx, item in enumerate(items): ... (idx is 0-based, items[idx + 1] here)
RECURSIVE SyntaxRows(_, _, _, _)
SyntaxRows(url, syntax, items, idx) ==
    IF idx >= Len(items) THEN <<>>
    ELSE ItemRows(url, syntax, idx, items[idx + 1])
         \o SyntaxRows(url, syntax, items, idx + 1)

\* for syntax, items in items_by_syntax.items(): ...
RECURSIVE FlatRows(_, _, _)
FlatRows(url, items_by_syntax, j) ==
    IF j > Len(items_by_syntax.items) THEN <<>>
    ELSE SyntaxRows(url, items_by_syntax.items[j].k, items_by_syntax.items[j].v.items, 0)
         \o FlatRows(url, items_by_syntax, j + 1)

\* lines 77-101: the value returned for a resolved URL and a raw extraction output
extract_structured_data(url, raw) ==
    LET items_by_syntax == normalize_items(raw)
    IN  [url |-> url,
         json |-> safe_json(items_by_syntax),
         flat |-> FlatRows(url, items_by_syntax, 1)]

----------------------------------------------------------------------------
(* The script: the run of one press of "Run extraction" *)

IsSpace(c) == c \in {" ", "\t"}

\* str.strip()
RECURSIVE lstrip(_), rstrip(_)
lstrip(str_) ==
    IF str_ # <<>> /\ IsSpace(Head(str_)) THEN lstrip(Tail(str_)) ELSE str_
rstrip(str_) ==
    IF str_ # <<>> /\ IsSpace(str_[Len(str_)])
    THEN rstrip(SubSeq(str_, 1, Len(str_) - 1)) ELSE str_
strip(str_) == rstrip(lstrip(str_))

\* str.splitlines(): the lines without their line breaks; no empty last line
RECURSIVE splitlines(_, _, _)
splitlines(str_, line, lines) ==
    IF str_ = <<>> THEN (IF line = <<>> THEN lines ELSE Append(lines, line))
    ELSE IF Head(str_) = "\n" THEN splitlines(Tail(str_), <<>>, Append(lines, line))
    ELSE splitlines(Tail(str_), Append(line, Head(str_)), lines)

\* [u.strip() for u in lines if u.strip()] without the strip of the kept line
ParseUrlsUntrimmed(lines) == SelectSeq(lines, LAMBDA u : strip(u) # <<>>)

\* [u.strip() for u in lines if u.strip()]
RECURSIVE ParseUrls(_)
ParseUrls(lines) ==
    IF lines = <<>> THEN <<>>
    ELSE (IF strip(Head(lines)) # <<>> THEN <<strip(Head(lines))>> ELSE <<>>)
         \o ParseUrls(Tail(lines))

InputChars == {"a", " ", "\n"}

Inputs == SeqsUpTo(InputChars, MaxInputLen)

\* the texts of the exceptions of fetch_html, extruct.extract and the flattening
FetchErrors == {<<"4", "0", "4">>}
ExtractErrors == {<<"p", "a", "r", "s", "e">>}
BuildErrors == {<<"d", "e", "p", "t", "h">>}

\* the URL a request for url may resolve to: itself or a redirect target
Resolved(url) == {url, url \o <<"/">>}

ItemN ==
    PyDict(<<[k |-> AtType, v |-> PyList(<<PyStr(<<"A">>), PyStr(<<"B">>)>>)],
             [k |-> <<"o">>, v |-> PyList(<<PyDict(<<[k |-> <<"p">>, v |-> PyInt(5)]>>), None>>)]>>)

\* the raw outputs of extruct.extract
Pages ==
    {PyDict(<<[k |-> JsonLd, v |-> PyList(<<ItemX, ItemN>>)],
              [k |-> Microdata, v |-> PyList(<<>>)],
              [k |-> Rdfa, v |-> PyList(<<ItemY>>)]>>),
     PyDict(<<[k |-> Microdata, v |-> ItemY],
              [k |-> Opengraph, v |-> PyList(<<ItemX>>)]>>),
     PyDict(<<[k |-> JsonLd, v |-> PyList(<<>>)],
              [k |-> Microdata, v |-> PyList(<<>>)],
              [k |-> Rdfa, v |-> PyList(<<>>)]>>)}

Init ==
    /\ pc = "start"
    /\ urls_input \in Inputs
    /\ urls = <<>> /\ i = 0
    /\ all_rows = <<>> /\ per_url_rows = <<>> /\ progress = <<0, 1>>
    /\ error_shown = FALSE /\ download = <<>>
    /\ final_url = <<>> /\ extracted = None /\ result = None /\ exc = <<>>
    /\ served = <<>>
    /\ prefix = <<>> /\ arg = None /\ rows = <<>> /\ ret = None

\* lines 118-127: parse the input; reject an empty list, else start the loop
Start ==
    /\ pc = "start"
    /\ urls' = ParseUrls(splitlines(urls_input, <<>>, <<>>))
    /\ IF urls' = <<>>
       THEN /\ error_shown' = TRUE
            /\ pc' = "stopped"
            /\ UNCHANGED <<i, progress>>
       ELSE /\ i' = 1
            /\ progress' = <<0, 1>>
            /\ pc' = "fetch"
            /\ UNCHANGED error_shown
    /\ all_rows' = <<>>
    /\ per_url_rows' = <<>>
    /\ UNCHANGED <<urls_input, download, final_url, extracted, result, exc, served, fnvars>>

\* line 67: fetch_html returns the page and the resolved URL
FetchOk ==
    /\ pc = "fetch"
    /\ final_url' \in Resolved(urls[i])
    /\ pc' = "extract"
    /\ UNCHANGED <<urls_input, urls, i, all_rows, per_url_rows, progress, error_shown,
                   download, extracted, result, exc, served, fnvars>>

\* line 67: fetch_html raises (connection error, timeout, non-2xx status)
FetchFail ==
    /\ pc = "fetch"
    /\ exc' \in FetchErrors
    /\ served' = Append(served, [url |-> urls[i], ok |-> FALSE, final_url |-> <<>>,
                                 flat |-> <<>>, json |-> <<>>, msg |-> exc'])
    /\ pc' = "except"
    /\ UNCHANGED <<urls_input, urls, i, all_rows, per_url_rows, progress, error_shown,
                   download, final_url, extracted, result, fnvars>>

\* lines 68-75: extruct.extract returns the raw output
ExtractOk ==
    /\ pc = "extract"
    /\ extracted' \in Pages
    /\ pc' = "build"
    /\ UNCHANGED <<urls_input, urls, i, all_rows, per_url_rows, progress, error_shown,
                   download, final_url, result, exc, served, fnvars>>

\* lines 68-75: extruct.extract raises on the page
ExtractFail ==
    /\ pc = "extract"
    /\ exc' \in ExtractErrors
    /\ served' = Append(served, [url |-> urls[i], ok |-> FALSE, final_url |-> final_url,
                                 flat |-> <<>>, json |-> <<>>, msg |-> exc'])
    /\ pc' = "except"
    /\ UNCHANGED <<urls_input, urls, i, all_rows, per_url_rows, progress, error_shown,
                   download, final_url, extracted, result, fnvars>>

\* lines 77-101 and 131: extract_structured_data returns its result
Build ==
    /\ pc = "build"
    /\ \E r \in {extract_structured_data(final_url, extracted)} :
          /\ result' = r
          /\ served' = Append(served, [url |-> urls[i], ok |-> TRUE,
                                       final_url |-> final_url,
                                       flat |-> r.flat, json |-> r.json, msg |-> <<>>])
    /\ pc' = "append"
    /\ UNCHANGED <<urls_input, urls, i, all_rows, per_url_rows, progress, error_shown,
                   download, final_url, extracted, exc, fnvars>>

\* lines 77-101: an exception escapes normalisation, flattening or safe_json;
\* the rows flattened so far are local to the call and are lost with it
BuildFail ==
    /\ pc = "build"
    /\ exc' \in BuildErrors
    /\ served' = Append(served, [url |-> urls[i], ok |-> FALSE, final_url |-> final_url,
                                 flat |-> <<>>, json |-> <<>>, msg |-> exc'])
    /\ pc' = "except"
    /\ UNCHANGED <<urls_input, urls, i, all_rows, per_url_rows, progress, error_shown,
                   download, final_url, extracted, result, fnvars>>

\* AppendResult with the row list replaced by the rows of the URL
AppendResultReplacing ==
    /\ pc = "append"
    /\ per_url_rows' = Append(per_url_rows,
            [url |-> result.url, structured_data_json |-> result.json])
    /\ all_rows' = result.flat
    /\ pc' = "progress"
    /\ UNCHANGED <<urls_input, urls, i, progress, error_shown, download, final_url,
                   extracted, result, exc, served, fnvars>>

\* lines 132-138: record the summary and the flat rows of the URL
AppendResult ==
    /\ pc = "append"
    /\ per_url_rows' = Append(per_url_rows,
            [url |-> result.url, structured_data_json |-> result.json])
    /\ all_rows' = all_rows \o result.flat
    /\ pc' = "progress"
    /\ UNCHANGED <<urls_input, urls, i, progress, error_shown, download, final_url,
                   extracted, result, exc, served, fnvars>>

\* the row appended for a failed URL
ErrorRow(url, msg) ==
    [url |-> url, syntax |-> <<>>, item_index |-> PyStr(<<>>), item_type |-> <<>>,
     property |-> <<"E", "R", "R", "O", "R">>, value |-> msg]

\* Except with the resolved URL in the error row
ExceptResolved ==
    /\ pc = "except"
    /\ all_rows' = Append(all_rows, ErrorRow(final_url, exc))
    /\ pc' = "progress"
    /\ UNCHANGED <<urls_input, urls, i, per_url_rows, progress, error_shown, download,
                   final_url, extracted, result, exc, served, fnvars>>

\* Except ending the loop after the error row
ExceptAborting ==
    /\ pc = "except"
    /\ all_rows' = Append(all_rows, ErrorRow(urls[i], exc))
    /\ pc' = "export"
    /\ UNCHANGED <<urls_input, urls, i, per_url_rows, progress, error_shown, download,
                   final_url, extracted, result, exc, served, fnvars>>

\* lines 139-149: except Exception as e: all_rows.append({... "ERROR" ...})
Except ==
    /\ pc = "except"
    /\ all_rows' = Append(all_rows, ErrorRow(urls[i], exc))
    /\ pc' = "progress"
    /\ UNCHANGED <<urls_input, urls, i, per_url_rows, progress, error_shown, download,
                   final_url, extracted, result, exc, served, fnvars>>

\* lines 151-154 and the loop header: sleep, report progress, go to the next URL
Progress ==
    /\ pc = "progress"
    /\ progress' = <<i, Len(urls)>>
    /\ IF i < Len(urls)
       THEN i' = i + 1 /\ pc' = "fetch"
       ELSE i' = i /\ pc' = "export"
    /\ UNCHANGED <<urls_input, urls, all_rows, per_url_rows, error_shown, download,
                   final_url, extracted, result, exc, served, fnvars>>

\* lines 156-174: preview and the two sheets of the download
Export ==
    /\ pc = "export"
    /\ download' = <<[preview |-> SubSeq(all_rows, 1,
                                    IF Len(all_rows) < PreviewRows THEN Len(all_rows)
                                    ELSE PreviewRows),
                      per_url_json |-> per_url_rows,
                      flat_properties |-> all_rows]>>
    /\ pc' = "done"
    /\ UNCHANGED <<urls_input, urls, i, all_rows, per_url_rows, progress, error_shown,
                   final_url, extracted, result, exc, served, fnvars>>

Next ==
    \/ Start
    \/ FetchOk
    \/ FetchFail
    \/ ExtractOk
    \/ ExtractFail
    \/ Build
    \/ BuildFail
    \/ AppendResult
    \/ Except
    \/ Progress
    \/ Export

Spec == Init /\ [][Next]_vars

----------------------------------------------------------------------------
(* The leaves of a value, addressed by the positions of the children taken *)
(* from the root                                                           *)

IsLeaf(v) == ~IsDict(v) /\ ~IsList(v)

Child(v, j) == IF IsDict(v) THEN v.items[j].v ELSE v.items[j]

RECURSIVE Node(_, _)
Node(v, a) == IF a = <<>> THEN v ELSE Node(Child(v, Head(a)), Tail(a))

\* the addresses of the leaves (scalars and nulls) reachable from v
RECURSIVE LeafAddrs(_)
LeafAddrs(v) ==
    IF IsLeaf(v) THEN {<<>>}
    ELSE UNION {{<<j>> \o a : a \in LeafAddrs(Child(v, j))} : j \in 1..Len(v.items)}

\* a comes before b in depth-first order (neither a prefix of the other)
Before(a, b) ==
    \E k \in 1..Len(a) :
        /\ k <= Len(b)
        /\ a[k] < b[k]
        /\ \A j \in 1..(k - 1) : a[j] = b[j]

\* the 1-based rank of the leaf at a among the leaves L in depth-first order
Rank(L, a) == 1 + Cardinality({b \in L : Before(b, a)})

\* the path of the node at a, built by descent from the node v whose path is parent
RECURSIVE PathOf(_, _, _)
PathOf(parent, v, a) ==
    IF a = <<>> THEN parent
    ELSE IF IsDict(v)
         THEN PathOf(IF parent = <<>> THEN v.items[Head(a)].k
                     ELSE parent \o <<".">> \o v.items[Head(a)].k,
                     v.items[Head(a)].v, Tail(a))
         ELSE PathOf(parent \o <<"[">> \o IntStr(Head(a) - 1) \o <<"]">>,
                     v.items[Head(a)], Tail(a))

\* the rows appended by the call
NewRows == SubSeq(rows, Len(OldRows) + 1, Len(rows))

FlattenDone == pc = "flatten_done"

\* C1: flatten_item appends exactly one row per leaf (scalar or null) of the
\* value and none for a mapping or sequence node, so empty containers add no
\* row; the row of a null leaf has value "" and the row of any other leaf has
\* the leaf's string form.  The rows already in the list are kept.
C1_OneRowPerLeaf ==
    FlattenDone =>
        LET L == LeafAddrs(arg)
        IN  /\ Len(rows) = Len(OldRows) + Cardinality(L)
            /\ SubSeq(rows, 1, Len(OldRows)) = OldRows
            /\ \A a \in L :
                  NewRows[Rank(L, a)].value =
                      IF Node(arg, a).kind = "null" THEN <<>> ELSE str(Node(arg, a))

\* a container holding a null leaf and a container whose only child is an
\* empty container was flattened: one row, with value ""
C1_Witness ==
    /\ FlattenDone
    /\ ~IsLeaf(arg)
    /\ \E j, k \in 1..Len(arg.items) :
          /\ Child(arg, j) = None
          /\ ~IsLeaf(Child(arg, k)) /\ Len(Child(arg, k).items) = 1
          /\ ~IsLeaf(Child(Child(arg, k), 1)) /\ Child(Child(arg, k), 1).items = <<>>
    /\ Len(NewRows) = 1
    /\ NewRows[1].value = <<>>

\* C2: the path of every row is built by descent from the root prefix (key
\* alone under an empty parent path, parent.key otherwise, parent[i] for a
\* sequence index), a root scalar under the empty prefix gives the single
\* path "", and the rows come in depth-first order; {"a": {"b": [10]}} gives
\* a.b[0] -> "10".
C2_PathsByDescent ==
    FlattenDone =>
        /\ LET L == LeafAddrs(arg)
           IN  \A a \in L : NewRows[Rank(L, a)].property = PathOf(prefix, arg, a)
        /\ (IsLeaf(arg) /\ prefix = <<>>) =>
              (Len(NewRows) = 1 /\ NewRows[1].property = <<>>)
        /\ (prefix = <<>> /\ arg = PyDict(<<[k |-> <<"a">>, v |->
                PyDict(<<[k |-> <<"b">>, v |-> PyList(<<PyInt(10)>>)]>>)]>>)) =>
              NewRows = <<[property |-> <<"a", ".", "b", "[", "0", "]">>,
                           value |-> <<"1", "0">>]>>
        /\ (prefix = <<>> /\ arg = PyDict(<<[k |-> <<>>, v |->
                PyDict(<<[k |-> <<"a">>, v |-> None]>>)]>>)) =>
              NewRows = <<[property |-> <<"a">>, value |-> <<>>]>>

\* a dict holding a list of two leaves was flattened under the empty prefix
C2_Witness ==
    /\ FlattenDone
    /\ prefix = <<>>
    /\ IsDict(arg) /\ Len(arg.items) = 1
    /\ IsList(arg.items[1].v) /\ Len(arg.items[1].v.items) = 2
    /\ Len(NewRows) = 2
    /\ NewRows[1].property = arg.items[1].k \o <<"[", "0", "]">>
    /\ NewRows[2].property = arg.items[1].k \o <<"[", "1", "]">>

\* C10: within one item no two distinct leaves get the same property path,
\* also when mapping keys are empty or contain ".", "[" or "]".
C10_PathsDistinct ==
    FlattenDone =>
        \A j, k \in 1..Len(NewRows) :
            j # k => NewRows[j].property # NewRows[k].property

----------------------------------------------------------------------------
(* guess_item_type *)

TypeDone == pc = "type_done"

\* the string form of a value found under a type field
TypeForm(t) == IF IsList(t) THEN JoinStr(<<",">>, t.items) ELSE str(t)

\* C3 (as stated): the result is the form of the value of @type when that
\* field is present, otherwise of the value of type, and "" when neither is
\* present or the item is no mapping.  (A null found value is left open.)
C3_TypeFieldWhenPresent ==
    TypeDone =>
        IF ~IsDict(arg) THEN ret = <<>>
        ELSE IF HasKey(arg, AtType)
             THEN Get(arg, AtType) # None => ret = TypeForm(Get(arg, AtType))
        ELSE IF HasKey(arg, Type)
             THEN Get(arg, Type) # None => ret = TypeForm(Get(arg, Type))
        ELSE ret = <<>>

\* C3 (amended): the value taken is that of @type when the field is present
\* and truthy, otherwise that of type; a sequence gives its elements' string
\* forms joined by "," in order without deduplication, a truthy scalar its
\* string form, and an absent value, a falsy scalar or a non-mapping item "".
C3_TypeFieldWhenTruthy ==
    TypeDone =>
        /\ ~IsDict(arg) => ret = <<>>
        /\ IsDict(arg) =>
              LET useAt == HasKey(arg, AtType) /\ Truthy(Get(arg, AtType))
                  present == useAt \/ HasKey(arg, Type)
                  t == IF useAt THEN Get(arg, AtType) ELSE Get(arg, Type)
              IN  /\ ~present => ret = <<>>
                  /\ (present /\ IsList(t)) => ret = JoinStr(<<",">>, t.items)
                  /\ (present /\ ~IsList(t) /\ Truthy(t)) => ret = str(t)
                  /\ (present /\ ~IsList(t) /\ ~Truthy(t)) => ret = <<>>
        /\ arg = PyDict(<<[k |-> AtType, v |-> PyList(<<PyStr(<<"A">>), PyStr(<<"B">>)>>)]>>)
              => ret = <<"A", ",", "B">>
        /\ arg = PyDict(<<[k |-> Type, v |-> PyList(<<PyStr(<<"A">>), PyStr(<<"A">>)>>)]>>)
              => ret = <<"A", ",", "A">>
        /\ arg = PyDict(<<>>) => ret = <<>>

\* an item whose @type is present but empty and whose type is a sequence of
\* two names was classified by its type field
C3_Witness ==
    /\ TypeDone
    /\ IsDict(arg)
    /\ HasKey(arg, AtType) /\ Get(arg, AtType) = PyStr(<<>>)
    /\ Get(arg, Type) = PyList(<<PyStr(<<"B">>), PyStr(<<"A">>)>>)
    /\ ret = <<"B", ",", "A">>

----------------------------------------------------------------------------
(* normalize_items *)

NormalizeDone == pc = "normalize_done"

\* C4: the result has exactly the keys json-ld, microdata, rdfa, each holding
\* a list: the raw value itself when it is a non-empty list, [v] when the raw
\* value v is truthy and not a list, [] when the key is missing or its value
\* is falsy; no other key of the raw mapping appears.
C4_NormalizedShape ==
    NormalizeDone =>
        /\ IsDict(ret)
        /\ Len(ret.items) = 3
        /\ {ret.items[j].k : j \in 1..Len(ret.items)} = {JsonLd, Microdata, Rdfa}
        /\ \A j \in 1..Len(ret.items) :
              LET k == ret.items[j].k
                  out == ret.items[j].v
                  raw == arg.items[CHOOSE m \in 1..Len(arg.items) : arg.items[m].k = k].v
              IN  /\ IsList(out)
                  /\ IF \E m \in 1..Len(arg.items) : arg.items[m].k = k
                     THEN /\ (IsList(raw) /\ raw.items # <<>>) => out = raw
                          /\ (~IsList(raw) /\ Truthy(raw)) => out = PyList(<<raw>>)
                          /\ ~Truthy(raw) => out = PyList(<<>>)
                     ELSE out = PyList(<<>>)

\* a raw output with a single json-ld item, no microdata, an empty rdfa value
\* and a fourth syntax was normalized
C4_Witness ==
    /\ NormalizeDone
    /\ arg = PyDict(<<[k |-> JsonLd, v |-> ItemX], [k |-> Rdfa, v |-> PyStr(<<>>)],
                      [k |-> Opengraph, v |-> PyList(<<ItemX>>)]>>)
    /\ ret = PyDict(<<[k |-> JsonLd, v |-> PyList(<<ItemX>>)],
                      [k |-> Microdata, v |-> PyList(<<>>)],
                      [k |-> Rdfa, v |-> PyList(<<>>)]>>)

----------------------------------------------------------------------------
(* The run loop *)

InLoop == pc \in {"fetch", "extract", "build", "append", "except", "progress"}

\* the number of URLs whose handling (append or except) is complete
Processed == IF pc \in {"append", "except"} THEN Len(served) - 1 ELSE Len(served)

\* what the URL of the history entry e adds to the row list
Contribution(e) ==
    IF e.ok THEN e.flat ELSE <<ErrorRow(e.url, e.msg)>>

\* the contributions of the first n URLs, in input order
RECURSIVE RowsOf(_, _)
RowsOf(h, n) == IF n = 0 THEN <<>> ELSE RowsOf(h, n - 1) \o Contribution(h[n])

\* the summaries of those of the first n URLs that succeeded, in input order
RECURSIVE SummariesOf(_, _)
SummariesOf(h, n) ==
    IF n = 0 THEN <<>>
    ELSE SummariesOf(h, n - 1)
         \o (IF h[n].ok
             THEN <<[url |-> h[n].final_url, structured_data_json |-> h[n].json]>>
             ELSE <<>>)

IsPrefix(p, q) == Len(p) <= Len(q) /\ SubSeq(q, 1, Len(p)) = p

IsErrorRow(r) == r.property = <<"E", "R", "R", "O", "R">> /\ r.syntax = <<>>

\* C5: the run loop handles every URL exactly once and reaches the end of the
\* list whichever URLs fail (before the end a step is always possible, also
\* after a failure); the final rows hold the flattened rows of every succeeding
\* URL and exactly one ERROR row for every failing URL.
C5_BatchIsolation ==
    /\ pc = "done" =>
          /\ urls # <<>>
          /\ i = Len(urls)
          /\ Len(served) = Len(urls)
          /\ \A k \in 1..Len(urls) : served[k].url = urls[k]
          /\ all_rows = RowsOf(served, Len(urls))
          /\ Cardinality({j \in 1..Len(all_rows) : IsErrorRow(all_rows[j])})
                = Cardinality({k \in 1..Len(served) : ~served[k].ok})
    /\ pc = "start" => ENABLED Start
    /\ pc = "fetch" => ENABLED FetchOk /\ ENABLED FetchFail
    /\ pc = "extract" => ENABLED ExtractOk /\ ENABLED ExtractFail
    /\ pc = "build" => ENABLED BuildFail
    /\ pc = "append" => ENABLED AppendResult
    /\ pc = "except" => ENABLED Except
    /\ pc = "progress" => ENABLED Progress
    /\ pc = "export" => ENABLED Export

\* three URLs were handled to the end, the second one failing and the others
\* contributing flattened rows
C5_Witness ==
    /\ pc = "done"
    /\ Len(urls) = 3
    /\ served[1].ok /\ ~served[2].ok /\ served[3].ok
    /\ Len(Contribution(served[1])) > 0 /\ Len(Contribution(served[3])) > 0
    /\ Cardinality({j \in 1..Len(all_rows) : IsErrorRow(all_rows[j])}) = 1

\* C6: a URL whose processing fails (in the fetch, the extraction or later)
\* adds only one row, with the input URL, empty syntax, item_index and
\* item_type, property "ERROR" and the error text as value; it adds no
\* flattened row and no summary, so the summaries are one per succeeding URL.
C6_FailedUrlOnlyErrorRow ==
    /\ Len(all_rows) = Len(RowsOf(served, Processed))
    /\ \A k \in 1..Processed :
          ~served[k].ok =>
              /\ Len(RowsOf(served, k)) = Len(RowsOf(served, k - 1)) + 1
              /\ all_rows[Len(RowsOf(served, k))] =
                    [url |-> urls[k], syntax |-> <<>>, item_index |-> PyStr(<<>>),
                     item_type |-> <<>>, property |-> <<"E", "R", "R", "O", "R">>,
                     value |-> served[k].msg]
    /\ Len(per_url_rows) = Cardinality({k \in 1..Processed : served[k].ok})
    /\ \A j \in 1..Len(per_url_rows) :
          \E k \in 1..Processed : served[k].ok /\ per_url_rows[j].url = served[k].final_url

\* a URL failed in the extraction after its fetch had resolved it to another URL
C6_Witness ==
    /\ pc = "progress"
    /\ ~served[i].ok
    /\ served[i].final_url # <<>> /\ served[i].final_url # urls[i]
    /\ served[i].msg \in ExtractErrors
    /\ all_rows[Len(all_rows)].url = urls[i]
    /\ Len(per_url_rows) = i - 1

\* what the accumulators hold at every point of the run
AccumulatedInOrder ==
    /\ all_rows = RowsOf(served, Processed)
    /\ per_url_rows = SummariesOf(served, Processed)
    /\ InLoop => /\ Len(served) \in {i - 1, i}
                 /\ Processed \in {i - 1, i}
                 /\ \A k \in 1..Len(served) : served[k].url = urls[k]

\* C7: URLs are handled one at a time in input order and both accumulators
\* only grow: every step keeps what they hold as a prefix, and at every point
\* the rows are the concatenation, in input order, of the contributions of the
\* URLs handled so far and the summaries those of the URLs that succeeded.
C7_AppendOnlyInOrder ==
    [][/\ IsPrefix(all_rows, all_rows')
       /\ IsPrefix(per_url_rows, per_url_rows')
       /\ i' \in {i, i + 1}
       /\ AccumulatedInOrder']_vars

\* the second URL succeeded after the first: two summaries and the rows of both
C7_Witness ==
    /\ pc = "progress"
    /\ i = 2
    /\ served[1].ok /\ served[2].ok
    /\ Len(per_url_rows) = 2
    /\ Len(Contribution(served[1])) > 0
    /\ Len(all_rows) > Len(Contribution(served[1]))

----------------------------------------------------------------------------
(* The empty-input guard and the parsing of the input *)

IsBlankChar(c) == c \in {" ", "\t", "\n"}

\* the characters of str_ that are no whitespace
Squash(str_) == SelectSeq(str_, LAMBDA c : ~IsBlankChar(c))

RECURSIVE Concat(_)
Concat(seqs) == IF seqs = <<>> THEN <<>> ELSE Head(seqs) \o Concat(Tail(seqs))

\* the positions of str_ holding the first non-blank character of a line
LineStarts(str_) ==
    {p \in 1..Len(str_) :
        /\ ~IsBlankChar(str_[p])
        /\ \A q \in 1..(p - 1) :
              ~IsBlankChar(str_[q]) => \E r \in (q + 1)..(p - 1) : str_[r] = "\n"}

\* C8: an input that is empty or holds only blank lines is rejected with an
\* error before any URL is fetched: no rows, no summaries, no download.  In
\* any other input the blank lines are ignored and every other line is a URL,
\* with its surrounding whitespace trimmed.
C8_EmptyInputGuard ==
    LET blank == \A p \in 1..Len(urls_input) : IsBlankChar(urls_input[p])
    IN  /\ blank =>
              /\ pc \in {"start", "stopped"}
              /\ served = <<>> /\ all_rows = <<>> /\ per_url_rows = <<>>
              /\ download = <<>>
              /\ pc = "stopped" => error_shown
        /\ pc = "stopped" => blank
        /\ (~blank /\ pc # "start") =>
              /\ ~error_shown
              /\ Len(urls) = Cardinality(LineStarts(urls_input))
              /\ Squash(Concat(urls)) = Squash(urls_input)
              /\ \A k \in 1..Len(urls) :
                    /\ urls[k] # <<>>
                    /\ ~IsBlankChar(urls[k][1])
                    /\ ~IsBlankChar(urls[k][Len(urls[k])])
                    /\ \A p \in 1..Len(urls[k]) : urls[k][p] # "\n"
                    /\ \E p \in 1..Len(urls_input) :
                          SubSeq(urls_input, p, p + Len(urls[k]) - 1) = urls[k]

\* an input of spaces and line breaks only was rejected
C8_Witness ==
    /\ pc = "stopped"
    /\ error_shown
    /\ \E p, q \in 1..Len(urls_input) : urls_input[p] = " " /\ urls_input[q] = "\n"
    /\ download = <<>>

----------------------------------------------------------------------------
(* extract_structured_data *)

SyntaxRank(syntax) == CHOOSE j \in 1..Len(Syntaxes) : Syntaxes[j] = syntax

\* C9: every flat row returned for a URL carries the resolved URL, the syntax
\* of its item, the item's position in the normalized list of that syntax and
\* guess_item_type of the item; the rows are grouped by syntax in the order
\* json-ld, microdata, rdfa and by ascending position, and the rows of one
\* (syntax, position) are the flatten_item output of the item under prefix "".
C9_RowsTagged ==
    pc = "append" =>
        LET flat == result.flat
            norm == normalize_items(extracted)
            ItemsOf(j) == norm.items[j].v.items
        IN  /\ result.url = final_url
            /\ \A r \in 1..Len(flat) :
                  /\ flat[r].url = final_url
                  /\ \E j \in 1..Len(Syntaxes) :
                        /\ flat[r].syntax = Syntaxes[j]
                        /\ norm.items[j].k = Syntaxes[j]
                        /\ flat[r].item_index.kind = "int"
                        /\ flat[r].item_index.n \in 0..(Len(ItemsOf(j)) - 1)
                        /\ flat[r].item_type =
                              guess_item_type(ItemsOf(j)[flat[r].item_index.n + 1])
            /\ \A r1, r2 \in 1..Len(flat) :
                  r1 < r2 =>
                      \/ SyntaxRank(flat[r1].syntax) < SyntaxRank(flat[r2].syntax)
                      \/ /\ flat[r1].syntax = flat[r2].syntax
                         /\ flat[r1].item_index.n <= flat[r2].item_index.n
            /\ \A j \in 1..Len(Syntaxes) :
                  \A idx \in 0..(Len(ItemsOf(j)) - 1) :
                      LET mine == SelectSeq(flat, LAMBDA t :
                                      t.syntax = Syntaxes[j] /\ t.item_index = PyInt(idx))
                      IN  [r \in 1..Len(mine) |->
                              [property |-> mine[r].property, value |-> mine[r].value]]
                          = flatten_item(<<>>, ItemsOf(j)[idx + 1], <<>>)

\* a redirected URL gave two json-ld items and one rdfa item
C9_Witness ==
    /\ pc = "append"
    /\ final_url # urls[i]
    /\ \E r \in 1..Len(result.flat) :
          /\ result.flat[r].syntax = JsonLd
          /\ result.flat[r].item_index = PyInt(1)
          /\ result.flat[r].item_type = <<"A", ",", "B">>
          /\ result.flat[r].property = <<"o", "[", "0", "]", ".", "p">>
          /\ result.flat[r].value = <<"5">>
    /\ \E r \in 1..Len(result.flat) :
          /\ result.flat[r].syntax = Rdfa
          /\ result.flat[r].item_index = PyInt(0)
          /\ result.flat[r].item_type = <<"Y">>

====
